---- MODULE Spec2Model ----
(***************************************************************************)
(* Model of PrismSensor (custom_components/silla_prism/sensor.py): one     *)
(* sensor entity subscribed to one MQTT topic, with an expiry timer.       *)
(*                                                                         *)
(* Execution contexts:                                                     *)
(*   - the MQTT transport thread calls message_received, which only hands  *)
(*     the message to the event loop (call_soon_threadsafe);               *)
(*   - the event loop runs _message_received, _value_is_expired and the    *)
(*     two lifecycle coroutines async_added_to_hass and                    *)
(*     async_will_remove_from_hass; a coroutine gives the loop back at     *)
(*     each await, so callbacks run between its segments.                  *)
(***************************************************************************)
EXTENDS Integers, Sequences, FiniteSets, TLC

(* ------------------------------ bounds -------------------------------- *)

\* time units standing for a positive expire_after
ExpireAfterTicks == 2
\* callbacks handed to the loop by call_soon_threadsafe and not yet run
MaxQueue == 1
\* invocations of the stored unsubscribe callable per subscription
MaxUnsubCalls == 2

(* --------------------------- Python values ---------------------------- *)

\* Python None / a present value, as a sequence of length 0 or 1
None == <<>>
Some(x) == <<x>>
Get(o) == o[1]

\* strings that are parsed are sequences of one-character strings
Digits == {"0", "1", "2", "3", "4", "5", "6", "7", "8", "9"}

DigitVal(c) ==
    CASE c = "0" -> 0 [] c = "1" -> 1 [] c = "2" -> 2 [] c = "3" -> 3
      [] c = "4" -> 4 [] c = "5" -> 5 [] c = "6" -> 6 [] c = "7" -> 7
      [] c = "8" -> 8 [] c = "9" -> 9

RECURSIVE LStrip(_)
LStrip(s) == IF s # <<>> /\ Head(s) = " " THEN LStrip(Tail(s)) ELSE s

RECURSIVE RStrip(_)
RStrip(s) ==
    IF s # <<>> /\ s[Len(s)] = " " THEN RStrip(SubSeq(s, 1, Len(s) - 1)) ELSE s

Strip(s) == RStrip(LStrip(s))

\* digits, with single underscores allowed between two digits
WellFormedDigits(s) ==
    /\ s # <<>>
    /\ s[1] \in Digits
    /\ s[Len(s)] \in Digits
    /\ \A k \in 1..Len(s) : s[k] \in Digits \cup {"_"}
    /\ \A k \in 1..(Len(s) - 1) : ~(s[k] = "_" /\ s[k + 1] = "_")

RECURSIVE DigitsValue(_, _)
DigitsValue(s, acc) ==
    IF s = <<>> THEN acc
    ELSE IF Head(s) = "_" THEN DigitsValue(Tail(s), acc)
    ELSE DigitsValue(Tail(s), 10 * acc + DigitVal(Head(s)))

\* int(payload): Some(n), or None when Python raises ValueError
int(payload) ==
    LET t == Strip(payload)
        signed == t # <<>> /\ Head(t) \in {"+", "-"}
        body == IF signed THEN Tail(t) ELSE t
    IN  IF ~WellFormedDigits(body) THEN None
        ELSE IF signed /\ Head(t) = "-" THEN Some(0 - DigitsValue(body, 0))
        ELSE Some(DigitsValue(body, 0))

\* list[k] with Python's 0-based index, negative k counting from the end:
\* Some(element), or None when Python raises IndexError
GetItem(list, k) ==
    IF k >= 0 /\ k < Len(list) THEN Some(list[k + 1])
    ELSE IF k < 0 /\ k >= 0 - Len(list) THEN Some(list[Len(list) + k + 1])
    ELSE None

(* --------------------------- configuration ---------------------------- *)

\* options of the two ENUM descriptions of SENSORS
CurrentStateOptions == <<"idle", "waiting", "charging", "pause">>
PortModeOptions == <<"solar", "normal", "paused", "suspended">>

\* options of a description: None for the measurement sensors
OptionsValues == {None, Some(CurrentStateOptions), Some(PortModeOptions)}

\* expire_after of a description: unset, disabled, or a positive duration
ExpireAfterValues == {None, Some(0 - 1), Some(0), Some(ExpireAfterTicks)}

\* payloads the broker may publish on the topic
Payloads ==
    { <<"1">>, <<"3">>, <<"0">>, <<"5">>, <<"-", "4">>, <<"a", "b", "c">> }

VARIABLES
    expire_after,         \* self._expire_after
    options,              \* self.options
    available,            \* self._attr_available
    native_value,         \* self._attr_native_value
    expiration_trigger,   \* self._expiration_trigger: None or a timer handle
    unsubscribe,          \* self._unsubscribe: None or a subscription handle
    timers,               \* the loop's scheduled, not cancelled call_later timers
    subscribed,           \* the transport delivers the topic to message_received
    loopQueue,            \* _message_received callbacks waiting in the loop
    pc,                   \* position of the running lifecycle coroutine
    lifecycle,            \* what the host did last with the entity
    elapsed,              \* time since the last _message_received ran (saturating)
    unsubCalls,           \* calls of the stored unsubscribe callable
    lastOp,               \* the handler of the entity that ran last
    notified,             \* lastOp asked the host to write the state
    error                 \* the exception that escaped lastOp

vars == <<expire_after, options, available, native_value, expiration_trigger,
          unsubscribe, timers, subscribed, loopQueue, pc, lifecycle, elapsed,
          unsubCalls, lastOp, notified, error>>

config == <<expire_after, options>>

(* ------------------------------- timers ------------------------------- *)

TimerIds == {t.id : t \in timers}

\* a handle that is neither scheduled nor the one currently stored
FreshHandle ==
    CHOOSE n \in 1..(Cardinality(timers) + 2) :
        /\ n \notin TimerIds
        /\ Some(n) # expiration_trigger
        /\ \A m \in 1..(n - 1) : m \in TimerIds \/ Some(m) = expiration_trigger

\* calling the cancel callable returned by async_call_later
CancelTimer(ts, h) == {t \in ts : t.id # h}

\* async_call_later(hass, delay, action)
CallLater(ts, h, delay) == ts \cup {[id |-> h, remaining |-> delay]}

Min(a, b) == IF a < b THEN a ELSE b
Max(a, b) == IF a > b THEN a ELSE b

(* -------------------------------- Init -------------------------------- *)

\* what PrismBaseEntity.__init__ leaves: the description's expire_after and
\* options, no value, no trigger, and the host's default availability
PrismBaseEntityInit ==
    /\ expire_after \in ExpireAfterValues
    /\ options \in OptionsValues
    /\ available = TRUE
    /\ native_value = None
    /\ expiration_trigger = None

Init ==
    /\ PrismBaseEntityInit
    /\ unsubscribe = None
    /\ timers = {}
    /\ subscribed = FALSE
    /\ loopQueue = <<>>
    /\ pc = "idle"
    /\ lifecycle = "new"
    /\ elapsed = 0
    /\ unsubCalls = 0
    /\ lastOp = "init"
    /\ notified = FALSE
    /\ error = "none"

(* ------------------------- async_added_to_hass ------------------------ *)

\* lines 113-115 up to the await inside _subscribe_topic
AttachBegin ==
    /\ pc = "idle"
    /\ lifecycle \in {"new", "removed", "failed"}
    /\ available' = FALSE
    /\ pc' = "attach_subscribe"
    /\ lastOp' = "attach"
    /\ notified' = FALSE
    /\ error' = "none"
    /\ UNCHANGED <<config, native_value, expiration_trigger, unsubscribe,
                   timers, subscribed, loopQueue, lifecycle, elapsed,
                   unsubCalls>>

\* async_subscribe returned: the handle is stored
AttachEnd ==
    /\ pc = "attach_subscribe"
    /\ unsubscribe' = Some("subscription")
    /\ subscribed' = TRUE
    /\ unsubCalls' = 0
    /\ pc' = "idle"
    /\ lifecycle' = "added"
    /\ lastOp' = "attached"
    /\ notified' = FALSE
    /\ error' = "none"
    /\ UNCHANGED <<config, available, native_value, expiration_trigger,
                   timers, loopQueue, elapsed>>

\* async_subscribe raised: the exception leaves async_added_to_hass
AttachFail ==
    /\ pc = "attach_subscribe"
    /\ pc' = "idle"
    /\ lifecycle' = "failed"
    /\ lastOp' = "attachFailed"
    /\ notified' = FALSE
    /\ error' = "SubscribeError"
    /\ UNCHANGED <<config, available, native_value, expiration_trigger,
                   unsubscribe, timers, subscribed, loopQueue, elapsed,
                   unsubCalls>>

(* -------------------------- _message_received ------------------------- *)

\* line 85 with >= in place of >
ExpiryEnabled_NonNegative(ea) == ea # None /\ Get(ea) >= 0

\* line 85: self._expire_after is not None and self._expire_after > 0
ExpiryEnabled(ea) == ea # None /\ Get(ea) > 0

\* Rearm without lines 90-91: the stored trigger is not cancelled
Rearm_NoCancel(ts, trigger, h, delay) == CallLater(ts, h, delay)

\* lines 90-95: cancel the stored trigger if there is one, schedule a new one
Rearm(ts, trigger, h, delay) ==
    CallLater(IF trigger # None THEN CancelTimer(ts, Get(trigger)) ELSE ts,
              h, delay)

\* lines 97-103: the new native value, or the exception that leaves the try
Decode(opts, payload, old) ==
    IF opts # None
    THEN LET i == int(payload)
         IN  IF i = None
             THEN [raised |-> "ValueError", value |-> old]
             ELSE LET item == GetItem(Get(opts), Get(i) - 1)
                  IN  IF item = None
                      THEN [raised |-> "none", value |-> None]
                      ELSE [raised |-> "none", value |-> item]
    ELSE [raised |-> "none", value |-> Some(payload)]

(* --------------------------- message_received ------------------------- *)

\* message_received running the handler in the transport thread, without
\* call_soon_threadsafe
Deliver_Unmarshalled(payload) ==
    /\ subscribed
    /\ LET d == Decode(options, payload, native_value)
       IN  /\ IF ExpiryEnabled(expire_after)
              THEN /\ available' = TRUE
                   /\ timers' = Rearm(timers, expiration_trigger, FreshHandle,
                                      Get(expire_after))
                   /\ expiration_trigger' = Some(FreshHandle)
              ELSE UNCHANGED <<available, timers, expiration_trigger>>
           /\ native_value' = d.value
           /\ error' = d.raised
           /\ notified' = (d.raised = "none")
    /\ elapsed' = 0
    /\ lastOp' = "onMessage"
    /\ UNCHANGED <<config, unsubscribe, subscribed, loopQueue, pc, lifecycle,
                   unsubCalls>>

\* transport thread: hand the message to the loop, touch nothing else
Deliver(payload) ==
    /\ subscribed
    /\ Len(loopQueue) < MaxQueue
    /\ loopQueue' = Append(loopQueue, payload)
    /\ UNCHANGED <<config, available, native_value, expiration_trigger,
                   unsubscribe, timers, subscribed, pc, lifecycle, elapsed,
                   unsubCalls, lastOp, notified, error>>

\* _message_received with lines 97-103 moved before line 85: an exception of
\* the decoding leaves the handler before the availability update
ProcessMessage_DecodeFirst ==
    /\ loopQueue # <<>>
    /\ LET payload == Head(loopQueue)
           d == Decode(options, payload, native_value)
       IN  /\ loopQueue' = Tail(loopQueue)
           /\ IF ExpiryEnabled(expire_after) /\ d.raised = "none"
              THEN /\ available' = TRUE
                   /\ timers' = Rearm(timers, expiration_trigger, FreshHandle,
                                      Get(expire_after))
                   /\ expiration_trigger' = Some(FreshHandle)
              ELSE UNCHANGED <<available, timers, expiration_trigger>>
           /\ native_value' = d.value
           /\ error' = d.raised
           /\ notified' = (d.raised = "none")
    /\ elapsed' = 0
    /\ lastOp' = "onMessage"
    /\ UNCHANGED <<config, unsubscribe, subscribed, pc, lifecycle, unsubCalls>>

\* the loop runs the oldest queued _message_received(msg)
ProcessMessage ==
    /\ loopQueue # <<>>
    /\ LET payload == Head(loopQueue)
           d == Decode(options, payload, native_value)
       IN  /\ loopQueue' = Tail(loopQueue)
           /\ IF ExpiryEnabled(expire_after)
              THEN /\ available' = TRUE
                   /\ timers' = Rearm(timers, expiration_trigger, FreshHandle,
                                      Get(expire_after))
                   /\ expiration_trigger' = Some(FreshHandle)
              ELSE UNCHANGED <<available, timers, expiration_trigger>>
           /\ native_value' = d.value
           /\ error' = d.raised
           \* line 105 is reached only when nothing was raised
           /\ notified' = (d.raised = "none")
    /\ elapsed' = 0
    /\ lastOp' = "onMessage"
    /\ UNCHANGED <<config, unsubscribe, subscribed, pc, lifecycle, unsubCalls>>

(* -------------------------- _value_is_expired ------------------------- *)

\* _value_is_expired without line 79: availability is left as it was
Expire_KeepsAvailable ==
    /\ \E t \in timers :
        /\ t.remaining = 0
        /\ timers' = timers \ {t}
    /\ expiration_trigger' = None
    /\ notified' = TRUE
    /\ error' = "none"
    /\ lastOp' = "onExpire"
    /\ UNCHANGED <<config, available, native_value, unsubscribe, subscribed,
                   loopQueue, pc, lifecycle, elapsed, unsubCalls>>

\* _value_is_expired without line 80: the state is not written
Expire_NoWrite ==
    /\ \E t \in timers :
        /\ t.remaining = 0
        /\ timers' = timers \ {t}
    /\ expiration_trigger' = None
    /\ available' = FALSE
    /\ notified' = FALSE
    /\ error' = "none"
    /\ lastOp' = "onExpire"
    /\ UNCHANGED <<config, native_value, unsubscribe, subscribed, loopQueue,
                   pc, lifecycle, elapsed, unsubCalls>>

\* _value_is_expired that also drops the reading
Expire_ClearsValue ==
    /\ \E t \in timers :
        /\ t.remaining = 0
        /\ timers' = timers \ {t}
    /\ expiration_trigger' = None
    /\ available' = FALSE
    /\ native_value' = None
    /\ notified' = TRUE
    /\ error' = "none"
    /\ lastOp' = "onExpire"
    /\ UNCHANGED <<config, unsubscribe, subscribed, loopQueue, pc, lifecycle,
                   elapsed, unsubCalls>>

\* a scheduled timer whose delay has run out calls _value_is_expired
Expire ==
    /\ \E t \in timers :
        /\ t.remaining = 0
        /\ timers' = timers \ {t}
    /\ expiration_trigger' = None
    /\ available' = FALSE
    /\ notified' = TRUE
    /\ error' = "none"
    /\ lastOp' = "onExpire"
    /\ UNCHANGED <<config, native_value, unsubscribe, subscribed, loopQueue,
                   pc, lifecycle, elapsed, unsubCalls>>

\* one unit of time passes
Tick ==
    /\ timers' = {[id |-> t.id, remaining |-> Max(t.remaining - 1, 0)] :
                    t \in timers}
    /\ elapsed' = Min(elapsed + 1, ExpireAfterTicks)
    /\ UNCHANGED <<config, available, native_value, expiration_trigger,
                   unsubscribe, subscribed, loopQueue, pc, lifecycle,
                   unsubCalls, lastOp, notified, error>>

(* --------------------- async_will_remove_from_hass -------------------- *)

\* lines 119-120: the coroutine starts and awaits the parent's hook
DetachBegin ==
    /\ pc = "idle"
    /\ lifecycle \in {"added", "removed", "failed"}
    /\ unsubCalls < MaxUnsubCalls
    /\ pc' = "detach_super"
    /\ lastOp' = "detachBegin"
    /\ notified' = FALSE
    /\ error' = "none"
    /\ UNCHANGED <<config, available, native_value, expiration_trigger,
                   unsubscribe, timers, subscribed, loopQueue, lifecycle,
                   elapsed, unsubCalls>>

\* the clean-up without line 123: the trigger is dropped, not called
CleanUp_NoCancel(avail, trigger, ts) ==
    IF trigger # None
    THEN [available |-> TRUE, trigger |-> None, timers |-> ts]
    ELSE [available |-> avail, trigger |-> trigger, timers |-> ts]

\* the clean-up with an else branch that marks the entity unavailable
CleanUp_ElseUnavailable(avail, trigger, ts) ==
    IF trigger # None
    THEN [available |-> TRUE, trigger |-> None,
          timers |-> CancelTimer(ts, Get(trigger))]
    ELSE [available |-> FALSE, trigger |-> trigger, timers |-> ts]

\* lines 122-125: what the clean-up leaves in (available, trigger, timers)
CleanUp(avail, trigger, ts) ==
    IF trigger # None
    THEN [available |-> TRUE, trigger |-> None,
          timers |-> CancelTimer(ts, Get(trigger))]
    ELSE [available |-> avail, trigger |-> trigger, timers |-> ts]

\* lines 122-127 and 70-72, up to the await of the unsubscribe callable
DetachCleanup ==
    /\ pc = "detach_super"
    /\ LET c == CleanUp(available, expiration_trigger, timers)
       IN  /\ available' = c.available
           /\ expiration_trigger' = c.trigger
           /\ timers' = c.timers
    /\ IF unsubscribe # None
       THEN /\ subscribed' = FALSE
            /\ unsubCalls' = unsubCalls + 1
            /\ pc' = "detach_unsubscribe"
            /\ lastOp' = "detachCleanup"
            /\ UNCHANGED lifecycle
       ELSE /\ pc' = "idle"
            /\ lifecycle' = "removed"
            /\ lastOp' = "detached"
            /\ UNCHANGED <<subscribed, unsubCalls>>
    /\ notified' = FALSE
    /\ error' = "none"
    /\ UNCHANGED <<config, native_value, unsubscribe, loopQueue, elapsed>>

\* the unsubscribe callable returned: the coroutine ends
DetachEnd ==
    /\ pc = "detach_unsubscribe"
    /\ pc' = "idle"
    /\ lifecycle' = "removed"
    /\ lastOp' = "detached"
    /\ notified' = FALSE
    /\ error' = "none"
    /\ UNCHANGED <<config, available, native_value, expiration_trigger,
                   unsubscribe, timers, subscribed, loopQueue, elapsed,
                   unsubCalls>>

(* ---------------------------- specification --------------------------- *)

Next ==
    \/ AttachBegin
    \/ AttachEnd
    \/ AttachFail
    \/ \E payload \in Payloads : Deliver(payload)
    \/ ProcessMessage
    \/ Expire
    \/ Tick
    \/ DetachBegin
    \/ DetachCleanup
    \/ DetachEnd

Spec == Init /\ [][Next]_vars

\* the loop runs due timers and time passes
FairSpec == Spec /\ WF_vars(Tick) /\ WF_vars(Expire)

TypeOK ==
    /\ expire_after \in ExpireAfterValues
    /\ options \in OptionsValues
    /\ available \in BOOLEAN
    /\ Len(native_value) <= 1
    /\ Len(expiration_trigger) <= 1
    /\ Len(unsubscribe) <= 1
    /\ \A t \in timers : t.remaining \in 0..ExpireAfterTicks
    /\ subscribed \in BOOLEAN
    /\ Len(loopQueue) <= MaxQueue
    /\ pc \in {"idle", "attach_subscribe", "detach_super", "detach_unsubscribe"}
    /\ lifecycle \in {"new", "added", "removed", "failed"}
    /\ elapsed \in 0..ExpireAfterTicks
    /\ unsubCalls \in 0..MaxUnsubCalls

(* ------------------------------- claims ------------------------------- *)

\* handles the model hands out while at most one timer is scheduled
HandleIds == 1..2

\* the configured expireAfter is > 0 / is absent or <= 0
ExpireAfterOn == expire_after # None /\ Get(expire_after) >= 1
ExpireAfterOff == expire_after = None \/ Get(expire_after) <= 0

\* the steps of async_will_remove_from_hass that change the entity
DetachOps == {"detachCleanup", "detached"}

(* C1: with expire_after > 0, a handled message leaves the entity available
   with its timer scheduled; every scheduled timer eventually goes, and it
   goes only by firing, by the next message or by the removal; the expiry
   leaves the entity unavailable with nothing scheduled (so it fires once),
   and unavailable turns into available only by a message (or the removal's
   clean-up). *)
C1_AfterHandlers ==
    ExpireAfterOn =>
        /\ lastOp = "onMessage" =>
              /\ available
              /\ expiration_trigger # None
              /\ Get(expiration_trigger) \in TimerIds
        /\ lastOp = "onExpire" =>
              /\ ~available
              /\ expiration_trigger = None
              /\ timers = {}

C1_Steps ==
    /\ (~available /\ available') => lastOp' \in {"onMessage"} \cup DetachOps
    /\ \A h \in HandleIds :
          (h \in TimerIds /\ h \notin TimerIds') =>
              lastOp' \in {"onExpire", "onMessage"} \cup DetachOps

C1_ExpiresOnceUntilNextMessage ==
    /\ []C1_AfterHandlers
    /\ [][C1_Steps]_vars
    /\ \A h \in HandleIds : (h \in TimerIds) ~> (h \notin TimerIds)

\* an expiry that followed a message, on an attached entity
C1_Witness ==
    /\ ExpireAfterOn
    /\ lifecycle = "added"
    /\ lastOp = "onExpire"
    /\ native_value # None
    /\ ~available

(* C2 (as stated): when a removal that started on an attached entity
   completes, the entity is available and no expiry is pending. *)
C2_DetachLeavesAvailable ==
    [][(lifecycle = "added" /\ lifecycle' = "removed") =>
          (available' /\ expiration_trigger' = None /\ timers' = {})]_vars

(* C3 (as stated): while the entity is removed and no lifecycle coroutine
   runs, no expiry timer is pending and no expiry has run since the removal. *)
C3_NoExpiryAfterDetach ==
    (lifecycle = "removed" /\ pc = "idle") =>
        (timers = {} /\ expiration_trigger = None /\ lastOp # "onExpire")

\* the value the enumerated decoding is specified to give for index i
SpecifiedOption(opts, i) ==
    IF 1 <= i /\ i <= Len(opts) THEN Some(opts[i]) ELSE None

(* C4 (as stated): with options set, handling a payload that parses as the
   integer i sets the value to options[i-1] when 1 <= i <= len(options) and
   to no value otherwise. *)
C4_EnumeratedDecoding ==
    [][(/\ lastOp' = "onMessage"
        /\ loopQueue # <<>>
        /\ loopQueue' = Tail(loopQueue)
        /\ options # None
        /\ int(Head(loopQueue)) # None) =>
          native_value' =
              SpecifiedOption(Get(options), Get(int(Head(loopQueue))))]_vars

(* C5 (as stated): handling any payload raises nothing and notifies the
   host; with options set, a payload that is not a number or not an index
   of options leaves no value. *)
C5_NoExceptionEscapes ==
    [][(/\ lastOp' = "onMessage"
        /\ loopQueue # <<>>
        /\ loopQueue' = Tail(loopQueue)) =>
          /\ error' = "none"
          /\ notified'
          /\ (options # None /\ int(Head(loopQueue)) = None) =>
                native_value' = None]_vars

(* C6: at most one scheduled, not cancelled expiry timer exists. *)
C6_AtMostOneTimer == Cardinality(timers) <= 1

\* a message re-armed the timer: the second handle is the only one scheduled
C6_Witness ==
    /\ lastOp = "onMessage"
    /\ expiration_trigger = Some(2)
    /\ TimerIds = {2}

(* C7: an expiry runs only when expire_after has passed since the last
   handled message, and once that silence has passed with a timer scheduled
   the expiry runs (unless a message or the removal comes first). *)
C7_NoEarlyExpiry ==
    lastOp = "onExpire" =>
        ExpireAfterOn /\ elapsed >= Get(expire_after)

C7_Rearm ==
    /\ []C7_NoEarlyExpiry
    /\ (timers # {} /\ elapsed = ExpireAfterTicks)
          ~> (lastOp = "onExpire" \/ elapsed < ExpireAfterTicks \/ timers = {})

\* a message re-armed the timer and expire_after has passed since: the
\* second timer is due, the first one is gone
C7_Witness ==
    /\ lastOp = "onMessage"
    /\ lifecycle = "added"
    /\ elapsed = ExpireAfterTicks
    /\ timers = {[id |-> 2, remaining |-> 0]}

(* C8 (as stated): a message handled on an attached entity leaves it
   available, for every expire_after. *)
C8_FirstMessageMakesAvailable ==
    (lastOp = "onMessage" /\ lifecycle = "added") => available

(* C9: with expire_after unset or <= 0 nothing is ever scheduled, no expiry
   runs, and available changes only in steps of attach, detach or message
   handling. *)
C9_NothingScheduled ==
    ExpireAfterOff =>
        /\ expiration_trigger = None
        /\ timers = {}
        /\ lastOp # "onExpire"

C9_AvailableSteps ==
    (ExpireAfterOff /\ available' # available) =>
        lastOp' \in {"attach", "onMessage"} \cup DetachOps

C9_ExpiryDisabled == []C9_NothingScheduled /\ [][C9_AvailableSteps]_vars

\* a message was handled on an attached entity whose expiry is disabled
C9_Witness ==
    /\ ExpireAfterOff
    /\ expire_after # None
    /\ lifecycle = "added"
    /\ lastOp = "onMessage"
    /\ elapsed = ExpireAfterTicks

(* C10 (as stated): right after the synchronous part of attach the entity
   is unavailable and has no value. *)
C10_AttachResets ==
    lastOp = "attach" => (~available /\ native_value = None)

\* what the host reads after the clean-up of a removal ran once / twice
AfterCleanUp ==
    LET c == CleanUp(available, expiration_trigger, timers)
    IN  <<c.available, native_value, c.trigger>>

AfterTwoCleanUps ==
    LET c == CleanUp(available, expiration_trigger, timers)
        d == CleanUp(c.available, c.trigger, c.timers)
    IN  <<d.available, native_value, d.trigger>>

(* C11: from every reachable state, two removals in a row (no other handler
   between their clean-ups) leave available, the value and the stored
   trigger as one removal leaves them; and what a removal's clean-up step
   leaves is what one clean-up gives and is not changed by another one. *)
C11_CleanUpStep ==
    (pc = "detach_super" /\ pc' # pc) =>
        /\ <<available', native_value', expiration_trigger'>> = AfterCleanUp
        /\ AfterCleanUp' = <<available', native_value', expiration_trigger'>>

C11_DetachIdempotent ==
    /\ [](AfterTwoCleanUps = AfterCleanUp)
    /\ [][C11_CleanUpStep]_vars

\* the second of two removals completed, the first one having cancelled a timer
C11_Witness ==
    /\ lastOp = "detached"
    /\ lifecycle = "removed"
    /\ unsubCalls = 2
    /\ available
    /\ native_value # None

(* C12 (as stated): the stored unsubscribe callable is called at most once
   for each subscription. *)
C12_ReleasedOnce == unsubCalls <= 1

\* the step runs in the event loop: a queued _message_received, a due
\* timer's _value_is_expired, or a segment of a lifecycle coroutine
MessageStep ==
    loopQueue # <<>> /\ loopQueue' = Tail(loopQueue) /\ lastOp' = "onMessage"

ExpiryStep ==
    /\ lastOp' = "onExpire"
    /\ \E t \in timers : t.remaining = 0 /\ timers' = timers \ {t}

LifecycleStep == pc' # pc

(* C13: the transport-side hand-over of a message changes none of
   available, value and the stored trigger; every step that changes one of
   them is one event-loop step: the handling of one queued message, one
   expiry, or one segment of attach or detach. *)
C13_Steps ==
    /\ Len(loopQueue') > Len(loopQueue) =>
          UNCHANGED <<available, native_value, expiration_trigger, timers>>
    /\ (\/ available' # available
        \/ native_value' # native_value
        \/ expiration_trigger' # expiration_trigger) =>
          (MessageStep \/ ExpiryStep \/ LifecycleStep)

C13_Marshalled == [][C13_Steps]_vars

\* a message was handed over while the entity awaited its first one: it is
\* queued and the entity is as attach left it
C13_Witness ==
    /\ loopQueue # <<>>
    /\ lastOp = "attached"
    /\ lifecycle = "added"
    /\ ~available
    /\ native_value = None
    /\ expiration_trigger = None

(* C14: the expiry leaves no stored trigger, the entity unavailable and the
   host notified, and while the entity is attached (attach completed, detach
   not completed) every step that takes available from true to false is an
   expiry. *)
C14_AfterExpire ==
    lastOp = "onExpire" => (expiration_trigger = None /\ ~available /\ notified)

C14_Steps ==
    (lifecycle = "added" /\ available /\ ~available') => ExpiryStep

C14_ExpireSoleWayDown == []C14_AfterExpire /\ [][C14_Steps]_vars

\* an attached entity expired after the full silence
C14_Witness ==
    /\ lastOp = "onExpire"
    /\ lifecycle = "added"
    /\ pc = "idle"
    /\ notified
    /\ timers = {}
    /\ elapsed = ExpireAfterTicks

(* C15 (as stated): every step that changes the value or available asks the
   host to write the state in that same step. *)
C15_NotifiesOnMutation ==
    [][(available' # available \/ native_value' # native_value) =>
          notified']_vars

\* the step leaves exactly one timer, newly scheduled for the full
\* expire_after, and its handle stored
FreshlyArmed ==
    /\ expiration_trigger' # None
    /\ expiration_trigger' # expiration_trigger
    /\ timers' = {[id |-> Get(expiration_trigger'),
                   remaining |-> Get(expire_after)]}

(* C16 (as stated): handling a payload whose index is outside
   1..len(options) leaves no value, and leaves available and the trigger as
   any handled message does: available with a fresh timer when expire_after
   > 0, both untouched otherwise. *)
C16_DecodingFailureFrame ==
    [][(/\ MessageStep
        /\ options # None
        /\ int(Head(loopQueue)) # None
        /\ SpecifiedOption(Get(options), Get(int(Head(loopQueue)))) = None) =>
          /\ native_value' = None
          /\ ExpireAfterOn => (available' /\ FreshlyArmed)
          /\ ExpireAfterOff =>
                UNCHANGED <<available, expiration_trigger, timers>>]_vars

(* C17 (as stated): when the subscribe of attach fails the error reaches
   the caller, no subscription handle is stored and no timer is armed, and
   until the next attach no unsubscribe call is made. *)
C17_AfterAttachFailed ==
    lastOp = "attachFailed" =>
        /\ error = "SubscribeError"
        /\ unsubscribe = None
        /\ expiration_trigger = None
        /\ timers = {}

C17_SubscribeFailure ==
    /\ []C17_AfterAttachFailed
    /\ [][lifecycle = "failed" => unsubCalls' <= unsubCalls]_vars

(* C18 (as stated): with expire_after > 0, whenever the entity is attached
   and no lifecycle coroutine runs, it is available exactly when an expiry
   trigger is stored. *)
C18_AvailableIffArmed ==
    (ExpireAfterOn /\ lifecycle = "added" /\ pc = "idle") =>
        (available <=> expiration_trigger # None)

(* C19: the value is written only by the handling of a message: the expiry,
   attach and detach leave it as it was. *)
C19_ValueFrame == [][native_value' # native_value => MessageStep]_vars

\* the entity expired and was then removed, and still holds its reading
C19_Witness ==
    /\ lastOp = "detached"
    /\ lifecycle = "removed"
    /\ ~available
    /\ expiration_trigger = None
    /\ native_value # None

(* C20: with expire_after > 0 every handled message, whatever its payload
   and whether or not the decoding raises, leaves the entity available with
   exactly one freshly armed timer. *)
C20_LivenessBeforeDecode ==
    [][(MessageStep /\ ExpireAfterOn) => (available' /\ FreshlyArmed)]_vars

\* the decoding raised and the entity is available with its timer armed
C20_Witness ==
    /\ lastOp = "onMessage"
    /\ error = "ValueError"
    /\ available
    /\ Cardinality(timers) = 1
    /\ elapsed = 0

====
